---- MODULE Spec2Model ----
(***************************************************************************)
(* aumai-toolemu: the response-selection and call-recording engine         *)
(* (ToolEmulator in core.py, the pydantic models in models.py).            *)
(*                                                                         *)
(* Representation.  Strings that are trimmed (tool names) are sequences of *)
(* one-character strings; other strings are TLA+ strings.  A dict is a     *)
(* function whose DOMAIN is its key set.  Floats are integers: latency in  *)
(* milliseconds, error_rate and the random draw in hundredths (a draw of   *)
(* random.random() lies in 0..99).  Python's None is the value None.  The  *)
(* timestamp of a RecordedCall is left out.                                *)
(***************************************************************************)
EXTENDS Integers, Sequences, FiniteSets, TLC

\* Successful calls between two resets.
MaxCalls == 3
\* add_mock operations in one behaviour.
MaxAdds == 1
\* Threads that work on one emulator.
NumThreads == 2

-----------------------------------------------------------------------------
(* Values *)

None == "None"

EmptyDict == [k \in {} |-> None]

dict_get(d, k, default) == IF k \in DOMAIN d THEN d[k] ELSE default

dict_set(d, k, v) == [x \in (DOMAIN d) \cup {k} |-> IF x = k THEN v ELSE d[x]]

NameA == <<"a">>
NameB == <<"b">>
Ghost == <<"g">>
PaddedA == <<" ", "a", " ">>
Blank == <<" ">>

RECURSIVE lstrip(_)
lstrip(s) == IF s # <<>> /\ Head(s) = " " THEN lstrip(Tail(s)) ELSE s

RECURSIVE rstrip(_)
rstrip(s) ==
    IF s # <<>> /\ s[Len(s)] = " " THEN rstrip(SubSeq(s, 1, Len(s) - 1)) ELSE s

\* Mutant: only the blanks in front are removed.
strip_front(s) == lstrip(s)

strip(s) == rstrip(lstrip(s))

\* An exception raised while an expression is evaluated stands in the place of
\* the expression's value.
IndexError == [exception |-> "IndexError"]

ZeroDivisionError == [exception |-> "ZeroDivisionError"]

exception_of(x) == IF "exception" \in DOMAIN x THEN x.exception ELSE None

\* s[i] of a Python list, i counted from 0.
item(s, i) == IF 0 <= i /\ i < Len(s) THEN s[i + 1] ELSE IndexError

\* s[-1] of a Python list.
last_item(s) == IF s # <<>> THEN s[Len(s)] ELSE IndexError

-----------------------------------------------------------------------------
(* models.py *)

ValidationError == [invalid |-> TRUE]

\* Mutant: the bounds 100 and 599 are themselves rejected.
MockResponse_open_range(status_code, body, latency_ms, headers) ==
    IF ~(100 < status_code /\ status_code < 599) THEN ValidationError
    ELSE IF latency_ms < 0 THEN ValidationError
    ELSE [status_code |-> status_code, body |-> body,
          latency_ms |-> latency_ms, headers |-> headers]

MockResponse(status_code, body, latency_ms, headers) ==
    IF ~(100 <= status_code /\ status_code <= 599) THEN ValidationError
    ELSE IF latency_ms < 0 THEN ValidationError
    ELSE [status_code |-> status_code, body |-> body,
          latency_ms |-> latency_ms, headers |-> headers]

MockBehavior == {"static", "sequential", "random", "error", "conditional"}

NoConditions == [is_none |-> TRUE, items |-> EmptyDict]

Conditions(d) == [is_none |-> FALSE, items |-> d]

ToolMock(tool_name, behavior, responses, error_rate, conditions) ==
    IF ~(0 <= error_rate /\ error_rate <= 100) THEN ValidationError
    ELSE IF strip(tool_name) = <<>> THEN ValidationError
    ELSE [tool_name |-> strip(tool_name), behavior |-> behavior,
          responses |-> responses, error_rate |-> error_rate,
          conditions |-> conditions]

EmulatorConfig(mocks, default_latency_ms, record_calls) ==
    [mocks |-> mocks, default_latency_ms |-> default_latency_ms,
     record_calls |-> record_calls]

RecordedCall(tool_name, input_data, response) ==
    [tool_name |-> tool_name, input_data |-> input_data, response |-> response]

-----------------------------------------------------------------------------
(* core.py: ToolEmulator *)

\* Mutant: the first mock of a name is kept.
RECURSIVE mocks_by_name_first_wins(_)
mocks_by_name_first_wins(ms) ==
    IF ms = <<>> THEN EmptyDict
    ELSE dict_set(mocks_by_name_first_wins(Tail(ms)), Head(ms).tool_name, Head(ms))

RECURSIVE mocks_by_name(_)
mocks_by_name(ms) ==
    IF ms = <<>> THEN EmptyDict
    ELSE LET m == ms[Len(ms)]
         IN dict_set(mocks_by_name(SubSeq(ms, 1, Len(ms) - 1)), m.tool_name, m)

\* self._config keeps the whole configuration; only default_latency_ms and
\* record_calls are read after construction, and only they are kept here.
ToolEmulator(config) ==
    [config |-> [default_latency_ms |-> config.default_latency_ms,
                 record_calls |-> config.record_calls],
     mocks |-> mocks_by_name(config.mocks),
     sequence_positions |-> EmptyDict,
     recorded_calls |-> <<>>]

InjectedError(mock) ==
    MockResponse(500, [error |-> "injected_error", tool |-> mock.tool_name], 0, EmptyDict)

ToolError(mock) ==
    MockResponse(500, [error |-> "tool_error", tool |-> mock.tool_name], 0, EmptyDict)

DefaultResponse == MockResponse(200, EmptyDict, 0, EmptyDict)

\* Mutant: one condition met is enough.
conditions_matched_any(mock, input_data) ==
    \E k \in DOMAIN mock.conditions.items :
        dict_get(input_data, k, None) = mock.conditions.items[k]

conditions_matched(mock, input_data) ==
    \A k \in DOMAIN mock.conditions.items :
        dict_get(input_data, k, None) = mock.conditions.items[k]

match_conditional(mock, input_data) ==
    IF mock.conditions.is_none \/ mock.responses = <<>>
    THEN IF mock.responses # <<>> THEN item(mock.responses, 0) ELSE DefaultResponse
    ELSE IF conditions_matched(mock, input_data)
         THEN item(mock.responses, 0)
         ELSE last_item(mock.responses)

\* mock.responses[pos % len(mock.responses)]
sequential_item(mock, pos) ==
    IF Len(mock.responses) = 0 THEN ZeroDivisionError
    ELSE item(mock.responses, pos % Len(mock.responses))

\* Mutant: the static policy walks its pool like the sequential one.
policy_response_static_cycles(mock, input_data, pos, pick) ==
    IF mock.behavior \in {"static", "sequential"}
    THEN [response |-> sequential_item(mock, pos),
          advances |-> exception_of(sequential_item(mock, pos)) = None]
    ELSE IF mock.behavior = "random"
    THEN [response |-> item(mock.responses, pick), advances |-> FALSE]
    ELSE IF mock.behavior = "conditional"
    THEN [response |-> match_conditional(mock, input_data), advances |-> FALSE]
    ELSE [response |-> item(mock.responses, 0), advances |-> FALSE]

\* Mutant: random.choice picks one place further on.
policy_response_random_shifted(mock, input_data, pos, pick) ==
    IF mock.behavior = "static"
    THEN [response |-> item(mock.responses, 0), advances |-> FALSE]
    ELSE IF mock.behavior = "sequential"
    THEN [response |-> sequential_item(mock, pos),
          advances |-> exception_of(sequential_item(mock, pos)) = None]
    ELSE IF mock.behavior = "random"
    THEN [response |-> item(mock.responses, pick + 1), advances |-> FALSE]
    ELSE IF mock.behavior = "conditional"
    THEN [response |-> match_conditional(mock, input_data), advances |-> FALSE]
    ELSE [response |-> item(mock.responses, 0), advances |-> FALSE]

\* Lines 117-133 of _select_response: the policy's pick from the pool.
policy_response(mock, input_data, pos, pick) ==
    IF mock.behavior = "static"
    THEN [response |-> item(mock.responses, 0), advances |-> FALSE]
    ELSE IF mock.behavior = "sequential"
    THEN [response |-> sequential_item(mock, pos),
          advances |-> exception_of(sequential_item(mock, pos)) = None]
    ELSE IF mock.behavior = "random"
    THEN [response |-> item(mock.responses, pick), advances |-> FALSE]
    ELSE IF mock.behavior = "conditional"
    THEN [response |-> match_conditional(mock, input_data), advances |-> FALSE]
    ELSE [response |-> item(mock.responses, 0), advances |-> FALSE]

\* Mutant: the empty-pool fallback is missing.
choose_response_no_fallback(mock, input_data, pos, draw, pick) ==
    IF mock.error_rate > 0 /\ draw < mock.error_rate
    THEN [response |-> InjectedError(mock), advances |-> FALSE]
    ELSE IF mock.behavior = "error"
    THEN [response |-> ToolError(mock), advances |-> FALSE]
    ELSE policy_response(mock, input_data, pos, pick)

\* Mutant: the empty-pool fallback is decided before fault injection.
choose_response_fallback_first(mock, input_data, pos, draw, pick) ==
    IF mock.responses = <<>> /\ mock.behavior # "error"
    THEN [response |-> DefaultResponse, advances |-> FALSE]
    ELSE IF mock.error_rate > 0 /\ draw < mock.error_rate
    THEN [response |-> InjectedError(mock), advances |-> FALSE]
    ELSE IF mock.behavior = "error"
    THEN [response |-> ToolError(mock), advances |-> FALSE]
    ELSE policy_response(mock, input_data, pos, pick)

\* Mutant: a draw equal to error_rate injects a fault, also at error_rate 0.
choose_response_inject_at_rate(mock, input_data, pos, draw, pick) ==
    IF draw <= mock.error_rate
    THEN [response |-> InjectedError(mock), advances |-> FALSE]
    ELSE IF mock.behavior = "error"
    THEN [response |-> ToolError(mock), advances |-> FALSE]
    ELSE IF mock.responses = <<>>
    THEN [response |-> DefaultResponse, advances |-> FALSE]
    ELSE policy_response(mock, input_data, pos, pick)

\* Mutant: the error policy is decided before fault injection.
choose_response_policy_first(mock, input_data, pos, draw, pick) ==
    IF mock.behavior = "error"
    THEN [response |-> ToolError(mock), advances |-> FALSE]
    ELSE IF mock.error_rate > 0 /\ draw < mock.error_rate
    THEN [response |-> InjectedError(mock), advances |-> FALSE]
    ELSE IF mock.responses = <<>>
    THEN [response |-> DefaultResponse, advances |-> FALSE]
    ELSE policy_response(mock, input_data, pos, pick)

\* Mutant: the empty-pool fallback is decided before the error policy.
choose_response_pool_before_error(mock, input_data, pos, draw, pick) ==
    IF mock.error_rate > 0 /\ draw < mock.error_rate
    THEN [response |-> InjectedError(mock), advances |-> FALSE]
    ELSE IF mock.responses = <<>>
    THEN [response |-> DefaultResponse, advances |-> FALSE]
    ELSE IF mock.behavior = "error"
    THEN [response |-> ToolError(mock), advances |-> FALSE]
    ELSE policy_response(mock, input_data, pos, pick)

\* Mutant: the empty-pool fallback of a sequential mock moves the cursor.
choose_response_empty_advances(mock, input_data, pos, draw, pick) ==
    IF mock.error_rate > 0 /\ draw < mock.error_rate
    THEN [response |-> InjectedError(mock), advances |-> FALSE]
    ELSE IF mock.behavior = "error"
    THEN [response |-> ToolError(mock), advances |-> FALSE]
    ELSE IF mock.responses = <<>>
    THEN [response |-> DefaultResponse, advances |-> mock.behavior = "sequential"]
    ELSE policy_response(mock, input_data, pos, pick)

\* Mutant: an injected fault on a sequential mock moves the cursor.
choose_response_fault_advances(mock, input_data, pos, draw, pick) ==
    IF mock.error_rate > 0 /\ draw < mock.error_rate
    THEN [response |-> InjectedError(mock), advances |-> mock.behavior = "sequential"]
    ELSE IF mock.behavior = "error"
    THEN [response |-> ToolError(mock), advances |-> FALSE]
    ELSE IF mock.responses = <<>>
    THEN [response |-> DefaultResponse, advances |-> FALSE]
    ELSE policy_response(mock, input_data, pos, pick)

\* Mutant: a fault is injected when the draw is below 0.5, whatever the
\* mock's error_rate.
choose_response_fixed_rate(mock, input_data, pos, draw, pick) ==
    IF draw < 50
    THEN [response |-> InjectedError(mock), advances |-> FALSE]
    ELSE IF mock.behavior = "error"
    THEN [response |-> ToolError(mock), advances |-> FALSE]
    ELSE IF mock.responses = <<>>
    THEN [response |-> DefaultResponse, advances |-> FALSE]
    ELSE policy_response(mock, input_data, pos, pick)

\* The response _select_response picks when the cursor of the tool reads pos,
\* random.random() gives draw and random.choice picks index pick; advances
\* tells whether the sequential branch went on to move the cursor.
choose_response(mock, input_data, pos, draw, pick) ==
    IF mock.error_rate > 0 /\ draw < mock.error_rate
    THEN [response |-> InjectedError(mock), advances |-> FALSE]
    ELSE IF mock.behavior = "error"
    THEN [response |-> ToolError(mock), advances |-> FALSE]
    ELSE IF mock.responses = <<>>
    THEN [response |-> DefaultResponse, advances |-> FALSE]
    ELSE policy_response(mock, input_data, pos, pick)

\* Mutant: the cursor is not written back.
select_response_stuck(self, mock, input_data, draw, pick) ==
    LET pos == dict_get(self.sequence_positions, mock.tool_name, 0)
        c == choose_response(mock, input_data, pos, draw, pick)
    IN [response |-> c.response, sequence_positions |-> self.sequence_positions]

\* Mutant: every call that is answered moves the tool's cursor.
select_response_counts_calls(self, mock, input_data, draw, pick) ==
    LET pos == dict_get(self.sequence_positions, mock.tool_name, 0)
        c == choose_response(mock, input_data, pos, draw, pick)
    IN [response |-> c.response,
        sequence_positions |->
            dict_set(self.sequence_positions, mock.tool_name, pos + 1)]

\* Mutant: one cursor, kept under the first tool's name, serves every tool.
select_response_shared_cursor(self, mock, input_data, draw, pick) ==
    LET pos == dict_get(self.sequence_positions, NameA, 0)
        c == choose_response(mock, input_data, pos, draw, pick)
    IN [response |-> c.response,
        sequence_positions |->
            IF c.advances
            THEN dict_set(self.sequence_positions, NameA, pos + 1)
            ELSE self.sequence_positions]

select_response(self, mock, input_data, draw, pick) ==
    LET pos == dict_get(self.sequence_positions, mock.tool_name, 0)
        c == choose_response(mock, input_data, pos, draw, pick)
    IN [response |-> c.response,
        sequence_positions |->
            IF c.advances
            THEN dict_set(self.sequence_positions, mock.tool_name, pos + 1)
            ELSE self.sequence_positions]

\* Mutant: default_latency_ms is preferred to the response's latency_ms.
latency_of_default_first(self, response) ==
    IF self.config.default_latency_ms > 0 THEN self.config.default_latency_ms
    ELSE response.latency_ms

latency_of(self, response) ==
    IF response.latency_ms > 0 THEN response.latency_ms
    ELSE self.config.default_latency_ms

\* Mutant: the record_calls flag is not consulted.
record_call_always(self, tool_name, input_data, response) ==
    Append(self.recorded_calls, RecordedCall(tool_name, input_data, response))

\* Mutant: the pool's first response is recorded, not the one chosen.
record_call_pool_head(self, tool_name, input_data, response) ==
    IF self.config.record_calls
    THEN Append(self.recorded_calls,
                RecordedCall(tool_name, input_data,
                             IF self.mocks[tool_name].responses # <<>>
                             THEN self.mocks[tool_name].responses[1]
                             ELSE response))
    ELSE self.recorded_calls

\* Mutant: the entry is put in front of the log.
record_call_in_front(self, tool_name, input_data, response) ==
    IF self.config.record_calls
    THEN <<RecordedCall(tool_name, input_data, response)>> \o self.recorded_calls
    ELSE self.recorded_calls

record_call(self, tool_name, input_data, response) ==
    IF self.config.record_calls
    THEN Append(self.recorded_calls, RecordedCall(tool_name, input_data, response))
    ELSE self.recorded_calls

NoResponse == [status_code |-> 0]

\* Lines 60 of call: the lookup found no mock.
tool_not_found(self) ==
    [raised |-> "ToolNotFoundError", response |-> NoResponse, slept |-> 0,
     self |-> self]

\* Lines 62-78 of call: the lookup found mock.
call_mock(self, mock, tool_name, input_data, draw, pick) ==
    LET sel == select_response(self, mock, input_data, draw, pick)
        selected == [self EXCEPT !.sequence_positions = sel.sequence_positions]
    IN IF exception_of(sel.response) # None
       THEN [raised |-> exception_of(sel.response), response |-> NoResponse,
             slept |-> 0, self |-> selected]
       ELSE [raised |-> None, response |-> sel.response,
             slept |-> IF latency_of(selected, sel.response) > 0
                       THEN latency_of(selected, sel.response) ELSE 0,
             self |-> [selected EXCEPT !.recorded_calls =
                          record_call(selected, tool_name, input_data,
                                      sel.response)]]

\* Mutant: an unknown name is answered with the default response.
call_unknown_default(self, tool_name, input_data, draw, pick) ==
    IF tool_name \notin DOMAIN self.mocks
    THEN call_mock(self, ToolMock(tool_name, "static", <<>>, 0, NoConditions),
                   tool_name, input_data, draw, pick)
    ELSE call_mock(self, self.mocks[tool_name], tool_name, input_data, draw, pick)

\* Mutant: the call is recorded before the lookup.
call_record_first(self, tool_name, input_data, draw, pick) ==
    IF tool_name \notin DOMAIN self.mocks
    THEN tool_not_found([self EXCEPT !.recorded_calls =
             record_call(self, tool_name, input_data, DefaultResponse)])
    ELSE call_mock(self, self.mocks[tool_name], tool_name, input_data, draw, pick)

\* call run to completion: raised names the exception (None when it returns),
\* slept the duration handed to time.sleep (0 when it is not called).
call(self, tool_name, input_data, draw, pick) ==
    IF tool_name \notin DOMAIN self.mocks
    THEN tool_not_found(self)
    ELSE call_mock(self, self.mocks[tool_name], tool_name, input_data, draw, pick)

\* Mutant: the internal list itself is returned.
get_recorded_calls_alias(self) == [kind |-> "alias", items |-> <<>>]

\* list(self._recorded_calls): a new list object ("own") holding the items of
\* the log; "alias" would be a reference to the log itself.
get_recorded_calls(self) == [kind |-> "own", items |-> self.recorded_calls]

\* Mutant: the cursors are not cleared.
reset_log_only(self) == [self EXCEPT !.recorded_calls = <<>>]

\* Mutant: reset also empties the registry.
reset_forgets_mocks(self) ==
    [self EXCEPT !.recorded_calls = <<>>, !.sequence_positions = EmptyDict,
                 !.mocks = EmptyDict]

reset(self) ==
    [self EXCEPT !.recorded_calls = <<>>, !.sequence_positions = EmptyDict]

\* Mutant: a name already registered keeps its mock.
add_mock_keep_existing(self, mock) ==
    IF mock.tool_name \in DOMAIN self.mocks THEN self
    ELSE [self EXCEPT !.mocks = dict_set(self.mocks, mock.tool_name, mock)]

\* Mutant: registering a mock drops the cursor of its name.
add_mock_drop_cursor(self, mock) ==
    [self EXCEPT !.mocks = dict_set(self.mocks, mock.tool_name, mock),
                 !.sequence_positions =
                     [n \in (DOMAIN self.sequence_positions) \ {mock.tool_name}
                          |-> self.sequence_positions[n]]]

add_mock(self, mock) ==
    [self EXCEPT !.mocks = dict_set(self.mocks, mock.tool_name, mock)]

-----------------------------------------------------------------------------
(* Inputs of the model: responses, mocks, configurations, payloads *)

Ok == MockResponse(200, [result |-> "ok"], 0, EmptyDict)
Step1 == MockResponse(200, [step |-> "1"], 0, EmptyDict)
Step2 == MockResponse(200, [step |-> "2"], 10, EmptyDict)
Step3 == MockResponse(201, [step |-> "3"], 0, [etag |-> "x"])
Prod == MockResponse(200, [environment |-> "prod"], 0, EmptyDict)
Other == MockResponse(200, [environment |-> "other"], 0, EmptyDict)

Inputs ==
    {EmptyDict, [env |-> "production", region |-> "eu"], [env |-> "staging"]}

\* random.random() is drawn at both ends of its range and on both sides of
\* an error_rate of 0.5.
Draws == {0, 49, 50, 99}

\* The configurations the emulator is constructed from.
Configs ==
    { EmulatorConfig(
          <<ToolMock(NameA, "sequential", <<Step1, Step2>>, 0, NoConditions),
            ToolMock(NameB, "static", <<>>, 0, NoConditions)>>, 0, r) :
          r \in BOOLEAN }
    \cup
    { EmulatorConfig(
          <<ToolMock(NameA, "conditional", <<Prod, Other>>, 0,
                     Conditions([env |-> "production"])),
            ToolMock(NameB, "error", <<Ok>>, 50, NoConditions)>>, 5, TRUE),
      EmulatorConfig(
          <<ToolMock(NameA, "static", <<Ok>>, 0, NoConditions),
            ToolMock(PaddedA, "sequential", <<Step2>>, 50, NoConditions),
            ToolMock(NameB, "random", <<Step1, Step3>>, 0, NoConditions)>>,
          0, TRUE) }

\* The arguments ToolMock is constructed with before add_mock.
AddSpecs ==
    { [tool_name |-> Ghost, behavior |-> "static", responses |-> <<Ok, Step1>>,
       error_rate |-> 0, conditions |-> NoConditions],
      [tool_name |-> PaddedA, behavior |-> "sequential",
       responses |-> <<Step3, Step1, Step2>>, error_rate |-> 0,
       conditions |-> NoConditions],
      [tool_name |-> Blank, behavior |-> "static", responses |-> <<Ok>>,
       error_rate |-> 0, conditions |-> NoConditions] }

CallNames == {NameA, NameB, Ghost, PaddedA}

\* The payloads a call is made with: all of Inputs for a conditional mock, whose
\* answer depends on the payload, two of them for a static mock, and one for
\* the policies that never read the payload and for an unregistered name.
Payloads(self, tool_name) ==
    IF tool_name \notin DOMAIN self.mocks THEN {[env |-> "staging"]}
    ELSE IF self.mocks[tool_name].behavior = "conditional" THEN Inputs
    ELSE IF self.mocks[tool_name].behavior = "static"
    THEN {EmptyDict, [env |-> "staging"]}
    ELSE {[env |-> "staging"]}

\* The indices random.choice can return.
Picks(self, tool_name) ==
    IF tool_name \in DOMAIN self.mocks /\ self.mocks[tool_name].behavior = "random"
       /\ self.mocks[tool_name].responses # <<>>
    THEN 0..(Len(self.mocks[tool_name].responses) - 1)
    ELSE {0}

-----------------------------------------------------------------------------
(* One emulator, operations executed one at a time *)

VARIABLES
    emu,        \* the ToolEmulator instance
    last,       \* the operation executed last and its outcome
    history,    \* the calls that returned since construction or the last reset
    adds,       \* add_mock operations executed
    touched,    \* names registered by add_mock since construction or reset
    held,       \* the list the caller got from get_recorded_calls and kept
    twin,       \* a second emulator, given the same operations
    threads,    \* the threads working on emu, each with its frame
    conc,       \* what the threads have done so far
    server      \* the event loop of the HTTP wrapper around emu

vars == <<emu, last, history, adds, touched, held, twin, threads, conc, server>>

\* cleared: the number of returned calls a reset wiped out.
Outcome(op, tool_name, input_data, raised, response, slept) ==
    [op |-> op, tool_name |-> tool_name, input_data |-> input_data,
     raised |-> raised, response |-> response, slept |-> slept, cleared |-> 0]

NoOutcome(op) == Outcome(op, <<>>, EmptyDict, None, NoResponse, 0)

NoList == [kind |-> "none", items |-> <<>>]

NoTwin == [emu |-> EmptyDict, last |-> NoOutcome("init")]

NoThreads == EmptyDict

\* started: the calls begun; returned: the calls that returned, in the order of
\* their return; reset_ran: some thread has begun a reset.
NoConc == [started |-> 0, returned |-> <<>>, reset_ran |-> FALSE]

NoRequest == [method |-> "", path |-> "", tool_name |-> <<>>, body |-> NoConditions]

\* received: requests accepted so far; inbox: requests accepted whose handler
\* has not run yet; running: the request whose handler is inside time.sleep;
\* answer: the HTTP answer sent last, and the request it went to.
NoServer ==
    [received |-> 0, inbox |-> {}, running |-> NoRequest,
     input_data |-> EmptyDict, response |-> NoResponse,
     answered |-> NoRequest, answer |-> NoResponse]

InitWith(configs) ==
    /\ \E config \in configs : emu = ToolEmulator(config)
    /\ last = NoOutcome("init")
    /\ history = <<>>
    /\ adds = 0
    /\ touched = {}
    /\ held = NoList
    /\ twin = NoTwin
    /\ threads = NoThreads
    /\ conc = NoConc
    /\ server = NoServer

Init == InitWith(Configs)

\* emulator.call(tool_name, input_data)
CallStep(tool_name, input_data, draw, pick) ==
    LET r == call(emu, tool_name, input_data, draw, pick)
    IN /\ r.raised # None \/ Len(history) < MaxCalls
       /\ emu' = r.self
       /\ last' = Outcome("call", tool_name, input_data, r.raised,
                          r.response, r.slept)
       /\ history' = IF r.raised = None
                     THEN Append(history,
                                 RecordedCall(tool_name, input_data, r.response))
                     ELSE history
       /\ UNCHANGED <<adds, touched>>

\* emulator.reset()
ResetStep ==
    /\ emu' = reset(emu)
    /\ last' = [NoOutcome("reset") EXCEPT !.cleared = Len(history)]
    /\ history' = <<>>
    /\ touched' = {}
    /\ UNCHANGED adds

\* emulator.add_mock(ToolMock(...)); when ToolMock raises, add_mock is not run.
AddMockStep(t) ==
    LET mock == ToolMock(t.tool_name, t.behavior, t.responses, t.error_rate,
                         t.conditions)
    IN IF mock = ValidationError
       THEN /\ last' = Outcome("add_mock", t.tool_name, EmptyDict,
                               "ValidationError", NoResponse, 0)
            /\ UNCHANGED <<emu, history, adds, touched>>
       ELSE /\ adds < MaxAdds
            /\ emu' = add_mock(emu, mock)
            /\ last' = Outcome("add_mock", mock.tool_name, EmptyDict, None,
                               NoResponse, 0)
            /\ adds' = adds + 1
            /\ touched' = touched \cup {mock.tool_name}
            /\ UNCHANGED history

Call ==
    \E tool_name \in CallNames, draw \in Draws :
    \E input_data \in Payloads(emu, tool_name), pick \in Picks(emu, tool_name) :
        /\ CallStep(tool_name, input_data, draw, pick)
        /\ UNCHANGED <<held, twin, threads, conc, server>>

Reset == ResetStep /\ UNCHANGED <<held, twin, threads, conc, server>>

AddMock ==
    \E t \in AddSpecs : AddMockStep(t) /\ UNCHANGED <<held, twin, threads, conc, server>>

Next == Call \/ Reset \/ AddMock

Spec == Init /\ [][Next]_vars

-----------------------------------------------------------------------------
(* Two emulators given the same operations, draws and picks: one records,
   its twin does not *)

WithRecording(config, r) == [config EXCEPT !.record_calls = r]

InitPair ==
    /\ \E config \in {c \in Configs : c.record_calls} :
           /\ emu = ToolEmulator(config)
           /\ twin = [emu |-> ToolEmulator(WithRecording(config, FALSE)),
                      last |-> NoOutcome("init")]
    /\ last = NoOutcome("init")
    /\ history = <<>>
    /\ adds = 0
    /\ touched = {}
    /\ held = NoList
    /\ threads = NoThreads
    /\ conc = NoConc
    /\ server = NoServer

PairCall ==
    \E tool_name \in CallNames, draw \in Draws :
    \E input_data \in Payloads(emu, tool_name), pick \in Picks(emu, tool_name) :
        LET r == call(twin.emu, tool_name, input_data, draw, pick)
        IN /\ CallStep(tool_name, input_data, draw, pick)
           /\ twin' = [emu |-> r.self,
                       last |-> Outcome("call", tool_name, input_data, r.raised,
                                        r.response, r.slept)]
           /\ UNCHANGED <<held, threads, conc, server>>

PairReset ==
    /\ ResetStep
    /\ twin' = [emu |-> reset(twin.emu), last |-> last']
    /\ UNCHANGED <<held, threads, conc, server>>

PairAddMock ==
    \E t \in AddSpecs :
        /\ AddMockStep(t)
        /\ twin' = [emu |-> IF last'.raised = None
                            THEN add_mock(twin.emu,
                                          ToolMock(t.tool_name, t.behavior,
                                                   t.responses, t.error_rate,
                                                   t.conditions))
                            ELSE twin.emu,
                    last |-> last']
        /\ UNCHANGED <<held, threads, conc, server>>

NextPair == PairCall \/ PairReset \/ PairAddMock

SpecPair == InitPair /\ [][NextPair]_vars

-----------------------------------------------------------------------------
(* The caller keeps the list get_recorded_calls returned and changes it *)

\* The items of a list object the caller holds.
Contents(list, self) ==
    IF list.kind = "alias" THEN self.recorded_calls ELSE list.items

Marker == RecordedCall(<<"x">>, EmptyDict, DefaultResponse)

InitCopy ==
    InitWith({EmulatorConfig(
                  <<ToolMock(NameA, "sequential", <<Step1, Step2>>, 0,
                             NoConditions),
                    ToolMock(NameB, "error", <<>>, 0, NoConditions)>>,
                  0, TRUE)})

GetRecordedCalls ==
    /\ held' = get_recorded_calls(emu)
    /\ last' = NoOutcome("get_recorded_calls")
    /\ UNCHANGED <<emu, history, adds, touched, twin, threads, conc, server>>

\* The caller's list becomes items: a change of the list object it refers to.
SetHeld(op, items) ==
    /\ held.kind # "none"
    /\ IF held.kind = "alias"
       THEN emu' = [emu EXCEPT !.recorded_calls = items] /\ held' = held
       ELSE held' = [held EXCEPT !.items = items] /\ emu' = emu
    /\ last' = NoOutcome(op)
    /\ UNCHANGED <<history, adds, touched, twin, threads, conc, server>>

ListAppend ==
    /\ Len(Contents(held, emu)) < MaxCalls
    /\ SetHeld("list_append", Append(Contents(held, emu), Marker))

ListPop ==
    /\ Contents(held, emu) # <<>>
    /\ SetHeld("list_pop", SubSeq(Contents(held, emu), 1,
                                  Len(Contents(held, emu)) - 1))

ListClear == SetHeld("list_clear", <<>>)

NextCopy == Call \/ Reset \/ GetRecordedCalls \/ ListAppend \/ ListPop \/ ListClear

SpecCopy == InitCopy /\ [][NextCopy]_vars

-----------------------------------------------------------------------------
(* Threads working on one emulator.  ToolEmulator takes no lock, so a thread
   can be preempted between any two accesses to the shared dicts and list;
   one dict or list operation is atomic. *)

Threads == 1..NumThreads

IdleFrame ==
    [pc |-> "idle", tool_name |-> <<>>, input_data |-> EmptyDict,
     mock |-> EmptyDict, pos |-> 0, response |-> NoResponse]

InitConc ==
    /\ emu = ToolEmulator(EmulatorConfig(
                 <<ToolMock(NameA, "sequential", <<Step1, Step2>>, 0, NoConditions),
                   ToolMock(NameB, "static", <<Ok>>, 0, NoConditions)>>, 0, TRUE))
    /\ last = NoOutcome("init")
    /\ history = <<>>
    /\ adds = 0
    /\ touched = {}
    /\ held = NoList
    /\ twin = NoTwin
    /\ threads = [t \in Threads |-> IdleFrame]
    /\ conc = NoConc
    /\ server = NoServer

ConcFrame == <<last, history, adds, touched, held, twin, server>>

\* Lines 58-60 of call: the lookup, and the raise when it finds nothing.
ThreadLookup(t) ==
    /\ threads[t].pc = "idle"
    /\ conc.started < MaxCalls
    /\ \E tool_name \in CallNames :
       \E input_data \in Payloads(emu, tool_name) :
           threads' = [threads EXCEPT ![t] =
               IF tool_name \notin DOMAIN emu.mocks THEN IdleFrame
               ELSE [IdleFrame EXCEPT !.pc = "select", !.tool_name = tool_name,
                                      !.input_data = input_data,
                                      !.mock = emu.mocks[tool_name]]]
    /\ conc' = [conc EXCEPT !.started = @ + 1]
    /\ UNCHANGED <<emu, ConcFrame>>

AfterSelect(response) ==
    IF latency_of(emu, response) > 0 THEN "sleep" ELSE "record"

\* Lines 102-122 and 126-133 of _select_response: the cursor is read (line
\* 121) and the response chosen; the cursor is not yet written.
ThreadSelect(t) ==
    /\ threads[t].pc = "select"
    /\ \E draw \in Draws, pick \in Picks(emu, threads[t].tool_name) :
           LET mock == threads[t].mock
               pos == dict_get(emu.sequence_positions, mock.tool_name, 0)
               c == choose_response(mock, threads[t].input_data, pos, draw, pick)
           IN threads' = [threads EXCEPT ![t] =
                  IF exception_of(c.response) # None THEN IdleFrame
                  ELSE [@ EXCEPT !.pc = IF c.advances THEN "advance"
                                        ELSE AfterSelect(c.response),
                                 !.pos = pos, !.response = c.response]]
    /\ UNCHANGED <<emu, conc, ConcFrame>>

\* Line 123 of _select_response: the cursor is written from the value read.
ThreadAdvance(t) ==
    /\ threads[t].pc = "advance"
    /\ emu' = [emu EXCEPT !.sequence_positions =
                  dict_set(@, threads[t].mock.tool_name, threads[t].pos + 1)]
    /\ threads' = [threads EXCEPT ![t].pc = AfterSelect(threads[t].response)]
    /\ UNCHANGED <<conc, ConcFrame>>

\* Mutant: the entry is appended when the wait begins, not after it.
ThreadSleep_records(t) ==
    /\ threads[t].pc = "sleep"
    /\ emu' = [emu EXCEPT !.recorded_calls =
                  record_call(emu, threads[t].tool_name, threads[t].input_data,
                              threads[t].response)]
    /\ threads' = [threads EXCEPT ![t].pc = "record"]
    /\ UNCHANGED <<conc, ConcFrame>>

\* Lines 65-66 of call: time.sleep.
ThreadSleep(t) ==
    /\ threads[t].pc = "sleep"
    /\ threads' = [threads EXCEPT ![t].pc = "record"]
    /\ UNCHANGED <<emu, conc, ConcFrame>>

\* Lines 68-78 of call: the entry is appended and the response returned.
ThreadRecord(t) ==
    /\ threads[t].pc = "record"
    /\ emu' = [emu EXCEPT !.recorded_calls =
                  record_call(emu, threads[t].tool_name, threads[t].input_data,
                              threads[t].response)]
    /\ conc' = [conc EXCEPT !.returned =
                   Append(@, RecordedCall(threads[t].tool_name,
                                          threads[t].input_data,
                                          threads[t].response))]
    /\ threads' = [threads EXCEPT ![t] = IdleFrame]
    /\ UNCHANGED ConcFrame

\* Line 86 of reset: the log is cleared.
ThreadResetLog(t) ==
    /\ threads[t].pc = "idle"
    /\ emu' = [emu EXCEPT !.recorded_calls = <<>>]
    /\ threads' = [threads EXCEPT ![t].pc = "reset_cursors"]
    /\ conc' = [conc EXCEPT !.reset_ran = TRUE]
    /\ UNCHANGED ConcFrame

\* Line 87 of reset: the cursors are cleared.
ThreadResetCursors(t) ==
    /\ threads[t].pc = "reset_cursors"
    /\ emu' = [emu EXCEPT !.sequence_positions = EmptyDict]
    /\ threads' = [threads EXCEPT ![t] = IdleFrame]
    /\ UNCHANGED <<conc, ConcFrame>>

NextConc ==
    \E t \in Threads :
        \/ ThreadLookup(t)
        \/ ThreadSelect(t)
        \/ ThreadAdvance(t)
        \/ ThreadSleep(t)
        \/ ThreadRecord(t)
        \/ ThreadResetLog(t)
        \/ ThreadResetCursors(t)

SpecConc == InitConc /\ [][NextConc]_vars

-----------------------------------------------------------------------------
(* One mock of every shape, and no add_mock *)

Pools == {<<>>, <<Step1>>, <<Step2, Step3>>}

ErrorRates == {0, 50, 100}

ConditionSets ==
    {NoConditions, Conditions(EmptyDict), Conditions([env |-> "production"])}

AllMocks ==
    { ToolMock(NameA, b, p, e, c) :
          b \in MockBehavior, p \in Pools, e \in ErrorRates, c \in ConditionSets }

InitAll ==
    InitWith({EmulatorConfig(<<m>>, 0, r) : m \in AllMocks, r \in BOOLEAN})

NextAll == Call \/ Reset

SpecAll == InitAll /\ [][NextAll]_vars

\* The mocks of every policy, pool and error_rate that carry no conditions.
FaultMocks == {m \in AllMocks : m.conditions = NoConditions}

InitFault == InitWith({EmulatorConfig(<<m>>, 0, TRUE) : m \in FaultMocks})

SpecFault == InitFault /\ [][NextAll]_vars

-----------------------------------------------------------------------------
(* core.py: the FastAPI application around one emulator.  Every route is an
   async def, so its handler runs on the event loop's single thread from its
   first line to its last; none of them awaits.  time.sleep inside
   emulator.call keeps that thread, and with it the loop, until it returns. *)

\* Requests one client can keep in flight.
MaxRequests == 3

\* body: the parsed JSON body, with is_none when the request has none.
Request(method, path, tool_name, body) ==
    [method |-> method, path |-> path, tool_name |-> tool_name, body |-> body]

Requests ==
    { Request("POST", "/tools/{tool_name}", n, b) :
          n \in {NameA, NameB, Ghost},
          b \in {NoConditions, Conditions([env |-> "staging"])} }
    \cup { Request("GET", "/calls", <<>>, NoConditions),
           Request("DELETE", "/calls", <<>>, NoConditions),
           Request("GET", "/health", <<>>, NoConditions) }

HTTPException(status_code, detail) ==
    [status_code |-> status_code, content |-> [detail |-> detail],
     headers |-> EmptyDict]

\* Mutant: every answer goes out with status 200.
JSONResponse_always_ok(content, status_code, headers) ==
    [status_code |-> 200, content |-> content, headers |-> headers]

JSONResponse(content, status_code, headers) ==
    [status_code |-> status_code, content |-> content, headers |-> headers]

\* body or {}
body_or_empty(body) ==
    IF body.is_none \/ body.items = EmptyDict THEN EmptyDict ELSE body.items

InitServer ==
    InitWith({EmulatorConfig(
                  <<ToolMock(NameA, "sequential", <<Step1, Step2>>, 0,
                             NoConditions),
                    ToolMock(NameB, "static", <<Ok>>, 0, NoConditions)>>,
                  0, TRUE)})

ServerFrame == <<last, history, adds, touched, held, twin, threads, conc>>

\* The loop thread is free to run a handler for req.
Ready(req, method, path) ==
    /\ server.running = NoRequest
    /\ req \in server.inbox
    /\ req.method = method
    /\ req.path = path

Answered(req, answer) ==
    [server EXCEPT !.inbox = @ \ {req}, !.running = NoRequest,
                   !.input_data = EmptyDict, !.response = NoResponse,
                   !.answered = req, !.answer = answer]

\* The server accepts a request; its handler is run by the loop later.
Receive ==
    /\ server.received < MaxRequests
    /\ \E req \in Requests \ server.inbox :
           server' = [server EXCEPT !.received = @ + 1, !.inbox = @ \cup {req}]
    /\ UNCHANGED <<emu, ServerFrame>>

\* call_tool up to the return of emulator.call, or up to its time.sleep.
call_tool(req) ==
    /\ Ready(req, "POST", "/tools/{tool_name}")
    /\ \E draw \in Draws, pick \in Picks(emu, req.tool_name) :
           LET input_data == body_or_empty(req.body)
               r == call(emu, req.tool_name, input_data, draw, pick)
           IN IF r.raised = "ToolNotFoundError"
              THEN /\ emu' = r.self
                   /\ server' = Answered(req, HTTPException(404, "not registered"))
              ELSE IF r.raised # None
              THEN /\ emu' = r.self
                   /\ server' = Answered(req, HTTPException(500, r.raised))
              ELSE IF r.slept > 0
              THEN /\ emu' = [r.self EXCEPT !.recorded_calls = emu.recorded_calls]
                   /\ server' = [server EXCEPT !.inbox = @ \ {req},
                                               !.running = req,
                                               !.input_data = input_data,
                                               !.response = r.response]
              ELSE /\ emu' = r.self
                   /\ server' = Answered(req,
                          JSONResponse(r.response.body, r.response.status_code,
                                       r.response.headers))
    /\ UNCHANGED ServerFrame

\* time.sleep returns: emulator.call records and returns, call_tool answers.
call_tool_resume ==
    /\ server.running # NoRequest
    /\ emu' = [emu EXCEPT !.recorded_calls =
                  record_call(emu, server.running.tool_name, server.input_data,
                              server.response)]
    /\ server' = Answered(server.running,
                     JSONResponse(server.response.body,
                                  server.response.status_code,
                                  server.response.headers))
    /\ UNCHANGED ServerFrame

get_calls(req) ==
    /\ Ready(req, "GET", "/calls")
    /\ server' = Answered(req,
                     JSONResponse(get_recorded_calls(emu).items, 200, EmptyDict))
    /\ UNCHANGED <<emu, ServerFrame>>

reset_calls(req) ==
    /\ Ready(req, "DELETE", "/calls")
    /\ emu' = reset(emu)
    /\ server' = Answered(req, JSONResponse([status |-> "reset"], 200, EmptyDict))
    /\ UNCHANGED ServerFrame

health(req) ==
    /\ Ready(req, "GET", "/health")
    /\ server' = Answered(req, JSONResponse([status |-> "ok"], 200, EmptyDict))
    /\ UNCHANGED <<emu, ServerFrame>>

\* The loop runs the handler of req to its end or to its time.sleep.
Handle(req) == call_tool(req) \/ get_calls(req) \/ reset_calls(req) \/ health(req)

NextServer ==
    \/ Receive
    \/ \E req \in Requests : call_tool(req)
    \/ call_tool_resume
    \/ \E req \in Requests : get_calls(req)
    \/ \E req \in Requests : reset_calls(req)
    \/ \E req \in Requests : health(req)

SpecServer == InitServer /\ [][NextServer]_vars

\* A server whose tools inject faults and answer with headers.
InitFaultyServer ==
    InitWith({EmulatorConfig(
                  <<ToolMock(NameA, "sequential", <<Step1, Step2>>, 50,
                             NoConditions),
                    ToolMock(NameB, "static", <<Step3>>, 0, NoConditions)>>,
                  0, TRUE)})

SpecFaultyServer == InitFaultyServer /\ [][NextServer]_vars

-----------------------------------------------------------------------------
(* One conditional mock, called with payloads that meet, miss and partly meet
   its conditions *)

CondPools == {<<>>, <<Prod>>, <<Prod, Step3, Other>>}

CondSets ==
    {NoConditions, Conditions(EmptyDict),
     Conditions([env |-> "production"]),
     Conditions([env |-> "production", region |-> "eu"]),
     Conditions([env |-> None])}

CondInputs ==
    {EmptyDict, [env |-> "production"], [env |-> "staging"], [region |-> "eu"],
     [env |-> None], [env |-> "production", region |-> "eu"],
     [env |-> "production", region |-> "us"]}

CondMocks ==
    { ToolMock(NameA, "conditional", p, 0, c) : p \in CondPools, c \in CondSets }
    \cup { ToolMock(NameA, "conditional", <<Prod, Other>>, 50,
                    Conditions([env |-> "production"])) }

InitConditional == InitWith({EmulatorConfig(<<m>>, 0, TRUE) : m \in CondMocks})

CallConditional ==
    \E input_data \in CondInputs, draw \in Draws :
        /\ CallStep(NameA, input_data, draw, 0)
        /\ UNCHANGED <<held, twin, threads, conc, server>>

NextConditional == CallConditional \/ Reset

SpecConditional == InitConditional /\ [][NextConditional]_vars

-----------------------------------------------------------------------------
(* Emulators that differ in default_latency_ms *)

DefaultLatencies == {-5, 0, 5}

LatencyConfigs ==
    { EmulatorConfig(
          <<ToolMock(NameA, "sequential", <<Step1, Step2>>, 50, NoConditions),
            ToolMock(NameB, "error", <<>>, 0, NoConditions)>>, d, TRUE) :
          d \in DefaultLatencies }

InitLatency == InitWith({c \in LatencyConfigs : c # ValidationError})

SpecLatency == InitLatency /\ [][NextAll]_vars

-----------------------------------------------------------------------------
(* The caller assigns to a field of the Response that call returned.
   MockResponse is a pydantic BaseModel that is not frozen, so the assignment
   succeeds; call returns the pool's own object (mock.responses[...]) and
   RecordedCall keeps a reference to the object it is given.  The pools below
   hold responses of pairwise different values and the value assigned occurs
   in none of them, so two responses of one tool are the same object exactly
   if they are equal. *)

MutateConfig ==
    EmulatorConfig(
        <<ToolMock(NameA, "static", <<Ok, Step3>>, 0, NoConditions),
          ToolMock(NameB, "sequential", <<Step1, Step2>>, 50, NoConditions)>>,
        0, TRUE)

InitMutate == InitWith({MutateConfig})

\* The status_code the caller assigns.
Teapot == 418

\* response.status_code = status_code, response being the object that a call
\* to tool_name returned: every reference to that object sees the new value.
setattr_status_code(self, tool_name, response, status_code) ==
    LET changed == [response EXCEPT !.status_code = status_code]
        pool == self.mocks[tool_name].responses
        log == self.recorded_calls
    IN IF response \in {pool[i] : i \in 1..Len(pool)}
       THEN [self EXCEPT
                !.mocks[tool_name].responses =
                    [i \in 1..Len(pool) |->
                        IF pool[i] = response THEN changed ELSE pool[i]],
                !.recorded_calls =
                    [i \in 1..Len(log) |->
                        IF log[i].tool_name = tool_name /\ log[i].response = response
                        THEN [log[i] EXCEPT !.response = changed]
                        ELSE log[i]]]
       ELSE IF self.config.record_calls /\ log # <<>>
       THEN [self EXCEPT !.recorded_calls[Len(log)].response = changed]
       ELSE self

\* The caller changes the Response it got from the call just made.
SetAttr ==
    /\ last.op = "call"
    /\ last.raised = None
    /\ last.response.status_code # Teapot
    /\ emu' = setattr_status_code(emu, last.tool_name, last.response, Teapot)
    /\ last' = [last EXCEPT !.op = "setattr",
                            !.response = [@ EXCEPT !.status_code = Teapot]]
    /\ UNCHANGED <<history, adds, touched, held, twin, threads, conc, server>>

NextMutate == Call \/ Reset \/ SetAttr

SpecMutate == InitMutate /\ [][NextMutate]_vars

-----------------------------------------------------------------------------
(* Construction of the pydantic models from keyword arguments *)

StatusCodes == {-1, 0, 99, 100, 101, 200, 404, 598, 599, 600, 1000}

Latencies == {-1, 0, 10}

ToolNames ==
    {<<>>, Blank, <<" ", " ">>, NameA, PaddedA, <<" ", "a">>, <<"a", " ">>,
     <<"a", " ", "b">>, <<" ", "a", " ", "b", " ">>}

RateArgs == {-1, 0, 50, 100, 101}

\* The outcome of a constructor call: the keyword arguments, and the object
\* constructed or the ValidationError raised.
Constructed(op, kwargs, value) ==
    (Outcome(op, <<>>, kwargs,
             IF value = ValidationError THEN "ValidationError" ELSE None,
             NoResponse, 0)
     @@ [value |-> value])

InitModels == InitWith({EmulatorConfig(<<>>, 0, TRUE)})

ModelsFrame == <<history, adds, touched, held, twin, threads, conc, server>>

NewMockResponse ==
    \E status_code \in StatusCodes, latency_ms \in Latencies :
        /\ last' = Constructed("MockResponse",
                       [status_code |-> status_code, latency_ms |-> latency_ms],
                       MockResponse(status_code, EmptyDict, latency_ms, EmptyDict))
        /\ UNCHANGED <<emu, ModelsFrame>>

NewToolMock ==
    \E tool_name \in ToolNames, error_rate \in RateArgs,
       behavior \in {"static", "error"} :
        /\ last' = Constructed("ToolMock",
                       [tool_name |-> tool_name, behavior |-> behavior,
                        error_rate |-> error_rate],
                       ToolMock(tool_name, behavior, <<>>, error_rate, NoConditions))
        /\ UNCHANGED <<emu, ModelsFrame>>

\* EmulatorConfig(...), and ToolEmulator(config) when the config is accepted.
NewEmulatorConfig ==
    \E default_latency_ms \in DefaultLatencies, record_calls \in BOOLEAN,
       mocks \in {<<>>, <<ToolMock(NameA, "static", <<Ok>>, 0, NoConditions)>>} :
        LET config == EmulatorConfig(mocks, default_latency_ms, record_calls)
        IN /\ last' = Constructed("EmulatorConfig",
                          [default_latency_ms |-> default_latency_ms,
                           record_calls |-> record_calls],
                          config)
           /\ emu' = IF config = ValidationError THEN emu ELSE ToolEmulator(config)
           /\ UNCHANGED ModelsFrame

NextModels == NewMockResponse \/ NewToolMock \/ NewEmulatorConfig

SpecModels == InitModels /\ [][NextModels]_vars

-----------------------------------------------------------------------------
(* Properties *)

IsResponse(r) ==
    /\ DOMAIN r = {"status_code", "body", "latency_ms", "headers"}
    /\ 100 <= r.status_code /\ r.status_code <= 599
    /\ r.latency_ms >= 0

Returned == last.op = "call" /\ last.raised = None

\* The calls to tool_name among the calls of h.
RECURSIVE Count(_, _)
Count(h, tool_name) ==
    IF h = <<>> THEN 0
    ELSE Count(SubSeq(h, 1, Len(h) - 1), tool_name)
         + (IF h[Len(h)].tool_name = tool_name THEN 1 ELSE 0)

\* A mocks list that a configuration with the registry reg can be built from.
RECURSIVE mock_list(_)
mock_list(reg) ==
    IF DOMAIN reg = {} THEN <<>>
    ELSE LET k == CHOOSE x \in DOMAIN reg : TRUE
         IN <<reg[k]>> \o mock_list([x \in (DOMAIN reg) \ {k} |-> reg[x]])

RoundRobin(mock) ==
    /\ mock.behavior = "sequential"
    /\ mock.error_rate = 0
    /\ Len(mock.responses) >= 1

\* C1: a call with a name that has no registered mock raises ToolNotFound and
\* leaves the log, the cursors and the registry as they were.
C1_UnknownToolRaises ==
    [][(last'.op = "call" /\ last'.tool_name \notin DOMAIN emu.mocks)
          => (last'.raised = "ToolNotFoundError" /\ emu' = emu)]_vars

C1_Witness ==
    /\ last.op = "call" /\ last.raised = "ToolNotFoundError"
    /\ emu.recorded_calls # <<>>
    /\ emu.sequence_positions # EmptyDict
    /\ adds > 0

\* C2: a call with a registered name returns a Response and raises nothing;
\* ToolNotFound, for an unregistered name, is the only exception of call.
C2_OnlyToolNotFound ==
    last.op = "call" =>
        IF last.tool_name \in DOMAIN emu.mocks
        THEN last.raised = None /\ IsResponse(last.response)
        ELSE last.raised = "ToolNotFoundError"

C2_Witness ==
    /\ Returned
    /\ emu.mocks[last.tool_name].behavior = "sequential"
    /\ emu.mocks[last.tool_name].responses = <<>>
    /\ emu.mocks[last.tool_name].error_rate = 50
    /\ ~emu.mocks[last.tool_name].conditions.is_none
    /\ last.response = DefaultResponse

\* C3: the i-th call (from 0) to a sequential tool with error_rate 0 and a pool
\* of k >= 1 responses, since construction or the last reset, returns
\* responses[i mod k].
C3_RoundRobin ==
    (Returned /\ last.tool_name \notin touched
              /\ RoundRobin(emu.mocks[last.tool_name])) =>
        LET mock == emu.mocks[last.tool_name]
            i == Count(history, last.tool_name) - 1
        IN last.response = mock.responses[(i % Len(mock.responses)) + 1]

C3_Witness ==
    /\ Returned /\ last.tool_name \notin touched
    /\ RoundRobin(emu.mocks[last.tool_name])
    /\ Len(emu.mocks[last.tool_name].responses) = 2
    /\ Count(history, last.tool_name) = 3
    /\ last.response = emu.mocks[last.tool_name].responses[1]

\* C4: after reset the emulator is in the state of an emulator freshly
\* constructed with the same registry (empty log, no cursor), and the first
\* call to a sequential tool after it returns responses[0].
C4_ResetIsFresh ==
    /\ last.op = "reset" =>
           emu = ToolEmulator(EmulatorConfig(mock_list(emu.mocks),
                                             emu.config.default_latency_ms,
                                             emu.config.record_calls))
    /\ (Returned /\ RoundRobin(emu.mocks[last.tool_name])
                 /\ Count(history, last.tool_name) = 1) =>
           last.response = emu.mocks[last.tool_name].responses[1]

C4_Witness ==
    /\ last.op = "reset"
    /\ last.cleared >= 2
    /\ adds > 0
    /\ \E n \in DOMAIN emu.mocks : RoundRobin(emu.mocks[n])

\* C5: with record_calls true the log holds exactly the calls that returned
\* since construction or the last reset, one entry each, in call order.
C5_OneEntryPerCall ==
    emu.config.record_calls => emu.recorded_calls = history

C5_Witness ==
    /\ emu.config.record_calls
    /\ last.op = "call" /\ last.raised = "ToolNotFoundError"
    /\ Len(emu.recorded_calls) = 2
    /\ emu.recorded_calls[1].tool_name # emu.recorded_calls[2].tool_name

\* C7: with recording on, the entry appended by a call holds the call's
\* tool_name and input_data and the Response the call returned.
C7_EntryIsTheCall ==
    (Returned /\ emu.config.record_calls) =>
        /\ emu.recorded_calls # <<>>
        /\ emu.recorded_calls[Len(emu.recorded_calls)]
               = RecordedCall(last.tool_name, last.input_data, last.response)

C7_Witness ==
    /\ Returned /\ emu.config.record_calls
    /\ emu.mocks[last.tool_name].responses # <<>>
    /\ last.input_data # EmptyDict
    /\ last.response = InjectedError(emu.mocks[last.tool_name])
    /\ emu.recorded_calls[Len(emu.recorded_calls)].response = last.response

\* C6: an emulator with record_calls false never has a log entry, and it
\* returns what an emulator that records returns for the same operations.
C6_RecordingOff ==
    ~twin.emu.config.record_calls =>
        /\ twin.emu.recorded_calls = <<>>
        /\ twin.last = last
        /\ twin.emu.sequence_positions = emu.sequence_positions

C6_Witness ==
    /\ ~twin.emu.config.record_calls
    /\ Len(emu.recorded_calls) = MaxCalls
    /\ Returned
    /\ adds > 0
    /\ emu.sequence_positions # EmptyDict

CallerOps == {"list_append", "list_pop", "list_clear"}

\* C8: what the caller does to a list get_recorded_calls returned does not
\* change what get_recorded_calls returns afterwards, and call and reset do not
\* change a list that was returned before.
C8_ReturnedListIsACopy ==
    [][/\ last'.op \in CallerOps =>
              Contents(get_recorded_calls(emu'), emu')
                  = Contents(get_recorded_calls(emu), emu)
       /\ (last'.op \in {"call", "reset"} /\ held.kind # "none") =>
              Contents(held', emu') = Contents(held, emu)]_vars

C8_Witness ==
    /\ last.op \in CallerOps
    /\ held.kind = "own"
    /\ emu.recorded_calls # <<>>
    /\ held.items # <<>>
    /\ held.items[Len(held.items)] = Marker

AllIdle == \A t \in Threads : threads[t].pc = "idle"

\* The entries of h for tool_name that hold response.
RECURSIVE Uses(_, _, _)
Uses(h, tool_name, response) ==
    IF h = <<>> THEN 0
    ELSE Uses(SubSeq(h, 1, Len(h) - 1), tool_name, response)
         + (IF h[Len(h)].tool_name = tool_name /\ h[Len(h)].response = response
            THEN 1 ELSE 0)

\* C9: when n calls to one sequential tool (error_rate 0, pool of k >= 1) have
\* run on separate threads and returned, with no reset, the tool's cursor is n
\* and the responses returned are responses[i mod k] for i = 0..n-1, each
\* index used once.
C9_NoLostUpdate ==
    (AllIdle /\ ~conc.reset_ran) =>
        \A name \in DOMAIN emu.mocks :
            RoundRobin(emu.mocks[name]) =>
                LET mock == emu.mocks[name]
                    k == Len(mock.responses)
                    n == Count(conc.returned, name)
                IN /\ dict_get(emu.sequence_positions, name, 0) = n
                   /\ \A j \in 1..k :
                          Uses(conc.returned, name, mock.responses[j])
                              = Cardinality({i \in 0..(n - 1) : i % k = j - 1})

\* C10: once a call to a sequential tool and the resets running beside it have
\* all finished, the log holds the call's entry exactly if the cursor holds
\* the call's advance.
C10_ResetAtomic ==
    (AllIdle /\ conc.started = 1) =>
        \A name \in DOMAIN emu.mocks :
            (RoundRobin(emu.mocks[name]) /\ Count(conc.returned, name) = 1) =>
                Count(emu.recorded_calls, name)
                    = dict_get(emu.sequence_positions, name, 0)

\* The entries of h that belong to tool_name, in the order of h.
Entries(h, tool_name) == SelectSeq(h, LAMBDA e : e.tool_name = tool_name)

\* No cursor update of the tool was lost: n returned calls, cursor n, and every
\* index of the pool used as often as round robin uses it.
NoUpdateLost(name) ==
    LET mock == emu.mocks[name]
        k == Len(mock.responses)
        n == Count(conc.returned, name)
    IN /\ dict_get(emu.sequence_positions, name, 0) = n
       /\ \A j \in 1..k :
              Uses(conc.returned, name, mock.responses[j])
                  = Cardinality({i \in 0..(n - 1) : i % k = j - 1})

\* C11: with recording on and no reset, the j-th log entry (counted from 0) of
\* a sequential tool with error_rate 0 and a pool of k >= 1 holds
\* responses[j mod k], also when calls run on separate threads and finish
\* their wait in another order than they selected; stated for the states
\* where all calls have returned and no cursor update was lost.
C11_LogInSelectionOrder ==
    (AllIdle /\ ~conc.reset_ran /\ emu.config.record_calls) =>
        \A name \in DOMAIN emu.mocks :
            (RoundRobin(emu.mocks[name]) /\ NoUpdateLost(name)) =>
                LET mock == emu.mocks[name]
                    log == Entries(emu.recorded_calls, name)
                IN \A j \in 1..Len(log) :
                       log[j].response
                           = mock.responses[((j - 1) % Len(mock.responses)) + 1]

\* C12: while a POST /tools/{name} request waits out its latency, every other
\* request the server has accepted can be handled: the loop can run its
\* handler before the wait ends.
C12_WaitSuspendsOnlyTheRequest ==
    server.running # NoRequest =>
        \A req \in server.inbox : ENABLED Handle(req)

\* The mock the last call was answered from.
LastMock == emu.mocks[last.tool_name]

\* The last operation is a call that a conditional mock answered by its
\* policy: no fault was injected.
ConditionalAnswer ==
    /\ Returned
    /\ last.tool_name \in DOMAIN emu.mocks
    /\ LastMock.behavior = "conditional"
    /\ last.response # InjectedError(LastMock)

\* Every key of conditions is a key of input_data and holds an equal value.
Satisfies(input_data, conditions) ==
    \A k \in DOMAIN conditions :
        k \in DOMAIN input_data /\ input_data[k] = conditions[k]

NonNull(conditions) ==
    /\ DOMAIN conditions # {}
    /\ \A k \in DOMAIN conditions : conditions[k] # None

\* C13: a conditional mock with non-empty conditions, all values non-null, and
\* a non-empty pool answers a call without fault injection with the first pool
\* element when every key of conditions is in input_data with an equal value,
\* and with the last pool element in every other case; it never raises.
C13_ConditionalMatch ==
    (/\ last.op = "call"
     /\ last.tool_name \in DOMAIN emu.mocks
     /\ LastMock.behavior = "conditional"
     /\ LastMock.error_rate = 0
     /\ ~LastMock.conditions.is_none
     /\ NonNull(LastMock.conditions.items)
     /\ LastMock.responses # <<>>) =>
        /\ last.raised = None
        /\ last.response =
               IF Satisfies(last.input_data, LastMock.conditions.items)
               THEN LastMock.responses[1]
               ELSE LastMock.responses[Len(LastMock.responses)]

\* Conditions of two keys, one met and one not: the last element is returned,
\* and it is not the first.
C13_Witness ==
    /\ ConditionalAnswer
    /\ LastMock.conditions = Conditions([env |-> "production", region |-> "eu"])
    /\ last.input_data = [env |-> "production", region |-> "us"]
    /\ Len(LastMock.responses) = 3
    /\ last.response = LastMock.responses[3]
    /\ last.response # LastMock.responses[1]

\* C14: a conditional mock with a non-empty pool whose conditions mapping is
\* present but empty answers every call without fault injection with the last
\* element of its pool.
C14_EmptyConditionsGiveLast ==
    (/\ ConditionalAnswer
     /\ ~LastMock.conditions.is_none
     /\ DOMAIN LastMock.conditions.items = {}
     /\ LastMock.responses # <<>>) =>
        last.response = LastMock.responses[Len(LastMock.responses)]

\* C15: a conditional mock with a non-empty pool answers a call whose
\* input_data lacks a key of its conditions, whatever value the conditions
\* require for it (null included), with the last element of its pool.
C15_MissingKeyFailsMatch ==
    (/\ ConditionalAnswer
     /\ ~LastMock.conditions.is_none
     /\ LastMock.responses # <<>>
     /\ \E k \in DOMAIN LastMock.conditions.items : k \notin DOMAIN last.input_data) =>
        last.response = LastMock.responses[Len(LastMock.responses)]

\* The last operation is a call to a registered tool.
CallToMock == last.op = "call" /\ last.tool_name \in DOMAIN emu.mocks

\* The response of an injected fault, as the caller sees it.
InjectedFault(tool_name) ==
    [status_code |-> 500, body |-> [error |-> "injected_error", tool |-> tool_name],
     latency_ms |-> 0, headers |-> EmptyDict]

\* The response of the error policy, as the caller sees it.
ToolFault(tool_name) ==
    [status_code |-> 500, body |-> [error |-> "tool_error", tool |-> tool_name],
     latency_ms |-> 0, headers |-> EmptyDict]

\* The elements of a pool.
Elements(pool) == {pool[i] : i \in 1..Len(pool)}

\* C16: with error_rate 1.0 every call to the tool returns a Response with
\* status_code 500, for every policy, pool and input.
C16_RateOneAlways500 ==
    (CallToMock /\ LastMock.error_rate = 100) =>
        /\ last.raised = None
        /\ last.response.status_code = 500

\* A static mock with an empty pool and error_rate 1.0 answered with 500.
C16_Witness ==
    /\ CallToMock
    /\ LastMock.error_rate = 100
    /\ LastMock.behavior = "static"
    /\ LastMock.responses = <<>>
    /\ last.response.status_code = 500

\* C17: with error_rate 0.0 no call returns an injected-fault Response: the
\* policies static, sequential, random and conditional return a pool element
\* or the empty-pool default, and the error policy its tool-error Response.
C17_RateZeroNeverInjects ==
    (CallToMock /\ LastMock.error_rate = 0) =>
        /\ last.raised = None
        /\ last.response # InjectedFault(last.tool_name)
        /\ IF LastMock.behavior = "error"
           THEN last.response = ToolFault(last.tool_name)
           ELSE IF LastMock.responses = <<>>
           THEN last.response = [status_code |-> 200, body |-> EmptyDict,
                                 latency_ms |-> 0, headers |-> EmptyDict]
           ELSE last.response \in Elements(LastMock.responses)

\* A sequential mock with error_rate 0.0 answered three times from its pool.
C17_Witness ==
    /\ CallToMock
    /\ LastMock.error_rate = 0
    /\ LastMock.behavior = "sequential"
    /\ Len(history) = 3
    /\ last.response \in Elements(LastMock.responses)

\* C18: whenever random.random() draws below error_rate, the call returns the
\* injected-fault Response (500, body naming an injected error and the tool),
\* whatever the policy, the error policy included.
C18_InjectionBeforePolicy ==
    [][\A tool_name \in DOMAIN emu.mocks, draw \in Draws :
       \A input_data \in Payloads(emu, tool_name), pick \in Picks(emu, tool_name) :
           (/\ draw < emu.mocks[tool_name].error_rate
            /\ CallStep(tool_name, input_data, draw, pick)) =>
               /\ last'.raised = None
               /\ last'.response = InjectedFault(tool_name)]_vars

\* A mock with behavior error and error_rate 1.0 answered with the
\* injected-error body.
C18_Witness ==
    /\ CallToMock
    /\ LastMock.behavior = "error"
    /\ LastMock.error_rate = 100
    /\ last.response.body = [error |-> "injected_error", tool |-> last.tool_name]

\* C19: a call that a mock with policy error answers without an injected
\* fault returns status 500 with a body naming a tool error and the tool,
\* whatever the pool holds.
C19_ErrorPolicyAlways500 ==
    (/\ CallToMock
     /\ LastMock.behavior = "error"
     /\ last.response # InjectedFault(last.tool_name)) =>
        /\ last.raised = None
        /\ last.response = ToolFault(last.tool_name)

\* An error mock with an empty pool answered twice with the tool error.
C19_Witness ==
    /\ CallToMock
    /\ LastMock.behavior = "error"
    /\ LastMock.responses = <<>>
    /\ Len(history) = 2
    /\ \A i \in 1..2 : history[i].response = ToolFault(last.tool_name)

\* C20: a call that a mock with an empty pool and policy static, sequential,
\* random or conditional answers without an injected fault returns status 200
\* with an empty body and does not raise; the tool gets no cursor entry.
C20_EmptyPoolDefault ==
    (/\ CallToMock
     /\ LastMock.responses = <<>>
     /\ LastMock.behavior # "error"
     /\ last.response # InjectedFault(last.tool_name)) =>
        /\ last.raised = None
        /\ last.response.status_code = 200
        /\ last.response.body = EmptyDict
        /\ last.tool_name \notin DOMAIN emu.sequence_positions

\* A sequential mock with an empty pool answered twice with the default.
C20_Witness ==
    /\ CallToMock
    /\ LastMock.responses = <<>>
    /\ LastMock.behavior = "sequential"
    /\ Len(history) = 2
    /\ \A i \in 1..2 : history[i].response.status_code = 200
    /\ emu.sequence_positions = EmptyDict

\* C21: every call to a mock with policy static, error_rate 0 and a non-empty
\* pool returns responses[0], whatever the input and whatever calls to other
\* tools come in between.
C21_StaticReturnsFirst ==
    /\ (/\ CallToMock
        /\ LastMock.behavior = "static"
        /\ LastMock.error_rate = 0
        /\ LastMock.responses # <<>>) =>
           /\ last.raised = None
           /\ last.response = LastMock.responses[1]
    /\ \A name \in DOMAIN emu.mocks :
           (/\ emu.mocks[name].behavior = "static"
            /\ emu.mocks[name].error_rate = 0
            /\ emu.mocks[name].responses # <<>>) =>
               \A i \in 1..Len(history) :
                   history[i].tool_name = name =>
                       history[i].response = emu.mocks[name].responses[1]

\* Three calls: two to a static mock with a pool of two, with different
\* inputs, and a call to another tool between them.
C21_Witness ==
    /\ Len(history) = 3
    /\ history[1].tool_name = history[3].tool_name
    /\ history[2].tool_name # history[1].tool_name
    /\ history[1].input_data # history[3].input_data
    /\ history[1].tool_name \in DOMAIN emu.mocks
    /\ emu.mocks[history[1].tool_name].behavior = "static"
    /\ Len(emu.mocks[history[1].tool_name].responses) = 2
    /\ history[3].response = emu.mocks[history[1].tool_name].responses[1]

\* C22: every call to a mock with policy random, error_rate 0 and a non-empty
\* pool returns an element of that mock's pool.
C22_RandomFromPool ==
    (/\ CallToMock
     /\ LastMock.behavior = "random"
     /\ LastMock.error_rate = 0
     /\ LastMock.responses # <<>>) =>
        /\ last.raised = None
        /\ last.response \in Elements(LastMock.responses)

\* A random mock beside other tools has returned two different elements of
\* its pool.
C22_Witness ==
    /\ CallToMock
    /\ LastMock.behavior = "random"
    /\ Cardinality(DOMAIN emu.mocks) >= 2
    /\ \E i, j \in 1..Len(history) :
           /\ history[i].tool_name = last.tool_name
           /\ history[j].tool_name = last.tool_name
           /\ history[i].response = LastMock.responses[1]
           /\ history[j].response = LastMock.responses[2]

\* s without the blanks before its first and after its last non-blank.
Trimmed(s) ==
    LET solid == {i \in 1..Len(s) : s[i] # " "}
    IN IF solid = {} THEN <<>>
       ELSE SubSeq(s, CHOOSE i \in solid : \A j \in solid : i <= j,
                      CHOOSE i \in solid : \A j \in solid : j <= i)

\* The arguments add_mock's mock was constructed with, for a name in touched.
AddedSpec(name) == CHOOSE t \in AddSpecs : Trimmed(t.tool_name) = name

\* C23: from add_mock on, a call for the name it registered does not raise
\* and is answered from the new spec: by responses[0] of a static spec, by an
\* element of the new pool of a sequential one; never from the spec replaced.
C23_AddMockTakesEffect ==
    (last.op = "call" /\ last.tool_name \in touched) =>
        LET t == AddedSpec(last.tool_name)
        IN /\ last.raised = None
           /\ last.response \in Elements(t.responses)
           /\ t.behavior = "static" => last.response = t.responses[1]

\* A tool answered a call from its conditional spec, was overwritten by
\* add_mock, and answered the next call from the new pool.
C23_Witness ==
    /\ last.op = "call"
    /\ last.tool_name \in touched
    /\ Len(history) = 2
    /\ history[1].tool_name = last.tool_name
    /\ history[1].response = Prod
    /\ history[2].response = Step3

\* C24: add_mock leaves the cursors alone, and the next call to a name
\* overwritten by a sequential spec with error_rate 0 and a pool of m >= 1
\* returns new_responses[pos mod m] and sets the cursor to pos + 1, pos being
\* the cursor the old spec left.
C24_AddMockKeepsCursor ==
    [][/\ (last'.op = "add_mock") =>
              emu'.sequence_positions = emu.sequence_positions
       /\ (/\ last'.op = "call"
           /\ last'.tool_name \in touched
           /\ AddedSpec(last'.tool_name).behavior = "sequential"
           /\ AddedSpec(last'.tool_name).error_rate = 0) =>
              LET t == AddedSpec(last'.tool_name)
                  pos == dict_get(emu.sequence_positions, last'.tool_name, 0)
              IN /\ last'.response = t.responses[(pos % Len(t.responses)) + 1]
                 /\ emu'.sequence_positions[last'.tool_name] = pos + 1]_vars

\* A pool of two was read twice, then overwritten by a pool of three: the
\* third call returned new_responses[2] and the cursor is 3.
C24_Witness ==
    /\ last.op = "call"
    /\ last.tool_name \in touched
    /\ Len(history) = 3
    /\ \A i \in 1..3 : history[i].tool_name = last.tool_name
    /\ history[1].response = Step1
    /\ history[2].response = Step2
    /\ Len(AddedSpec(last.tool_name).responses) = 3
    /\ last.response = AddedSpec(last.tool_name).responses[3]
    /\ emu.sequence_positions[last.tool_name] = 3

\* The registry a mocks list stands for: under each name, the entry of that
\* name that comes last in the list.
Registry(ms) ==
    [n \in {ms[i].tool_name : i \in 1..Len(ms)} |->
        ms[CHOOSE i \in 1..Len(ms) :
               /\ ms[i].tool_name = n
               /\ \A j \in 1..Len(ms) : ms[j].tool_name = n => j <= i]]

\* C25: the registry holds one spec per name, the one registered last: the
\* emulator starts with the last entry of each name of its config's mocks
\* list, a successful add_mock puts its spec under its name and changes no
\* other name, and no other operation changes the registry.
C25_LastRegistrationWins ==
    /\ \E config \in Configs : emu.mocks = Registry(config.mocks)
    /\ [][IF last'.op = "add_mock" /\ last'.raised = None
          THEN LET t == AddedSpec(last'.tool_name)
               IN /\ DOMAIN emu'.mocks = DOMAIN emu.mocks \cup {last'.tool_name}
                  /\ emu'.mocks[last'.tool_name] =
                         [tool_name |-> last'.tool_name, behavior |-> t.behavior,
                          responses |-> t.responses, error_rate |-> t.error_rate,
                          conditions |-> t.conditions]
                  /\ \A n \in DOMAIN emu.mocks :
                         n # last'.tool_name => emu'.mocks[n] = emu.mocks[n]
          ELSE emu'.mocks = emu.mocks]_vars

\* A config lists a static and then a sequential mock under one name; a call
\* for the name was answered by the sequential one.
C25_Witness ==
    /\ CallToMock
    /\ last.tool_name = NameA
    /\ \E config \in Configs :
           /\ Len(config.mocks) > Cardinality(DOMAIN emu.mocks)
           /\ emu.mocks = Registry(config.mocks)
           /\ config.mocks[1].tool_name = NameA
           /\ config.mocks[1].behavior = "static"
    /\ LastMock.behavior = "sequential"
    /\ last.response = LastMock.responses[1]

\* C26: a call that returns has waited once for the chosen Response's
\* latency_ms when that is above zero, else once for default_latency_ms when
\* that is above zero, else not at all.
C26_LatencySelection ==
    Returned =>
        last.slept =
            IF last.response.latency_ms > 0 THEN last.response.latency_ms
            ELSE IF emu.config.default_latency_ms > 0
                 THEN emu.config.default_latency_ms
                 ELSE 0

\* With a default of 5 ms, one call waited the 10 ms of its Response and the
\* call before it the default.
C26_Witness ==
    /\ Returned
    /\ emu.config.default_latency_ms = 5
    /\ last.response.latency_ms = 10
    /\ last.slept = 10
    /\ Len(history) >= 2
    /\ history[Len(history) - 1].response.latency_ms = 0

\* C27: a Response cannot be changed once constructed: whatever the caller
\* does with a Response that call returned, the pools of the registry stay as
\* configured and every RecordedCall holds the Response as it was returned.
C27_ResponseImmutable ==
    /\ emu.mocks = Registry(MutateConfig.mocks)
    /\ emu.recorded_calls = history

\* C28: MockResponse(status_code=s), the other fields valid, is accepted and
\* keeps s for every integer 100 <= s <= 599, and is rejected with a
\* validation error for every s below 100 or above 599.
C28_StatusCodeRange ==
    last.op = "MockResponse" =>
        IF 100 <= last.input_data.status_code /\ last.input_data.status_code <= 599
        THEN last.input_data.latency_ms >= 0 =>
                 /\ last.raised = None
                 /\ last.value.status_code = last.input_data.status_code
        ELSE last.raised = "ValidationError"

\* The upper boundary 599 was accepted and kept.
C28_Witness ==
    /\ last.op = "MockResponse"
    /\ last.input_data.status_code = 599
    /\ last.raised = None
    /\ last.value.status_code = 599

\* C29: ToolMock(tool_name=n), the other fields valid, is rejected with a
\* validation error when n is empty or all blanks, and otherwise stores n
\* without the blanks around it: a non-empty name that neither starts nor
\* ends with a blank.
C29_ToolNameTrimmed ==
    (/\ last.op = "ToolMock"
     /\ 0 <= last.input_data.error_rate
     /\ last.input_data.error_rate <= 100) =>
        IF Trimmed(last.input_data.tool_name) = <<>>
        THEN last.raised = "ValidationError"
        ELSE /\ last.raised = None
             /\ last.value.tool_name = Trimmed(last.input_data.tool_name)
             /\ last.value.tool_name # <<>>
             /\ Head(last.value.tool_name) # " "
             /\ last.value.tool_name[Len(last.value.tool_name)] # " "

\* " a b " was stored as "a b".
C29_Witness ==
    /\ last.op = "ToolMock"
    /\ last.input_data.tool_name = <<" ", "a", " ", "b", " ">>
    /\ last.raised = None
    /\ last.value.tool_name = <<"a", " ", "b">>

\* C30: EmulatorConfig(default_latency_ms=d) with d below zero is rejected
\* with a validation error.
C30_DefaultLatencyNonNegative ==
    (last.op = "EmulatorConfig" /\ last.input_data.default_latency_ms < 0) =>
        last.raised = "ValidationError"

\* C31: the answer to POST /tools/{name} is a 404 when the name is not
\* registered, and otherwise carries exactly the status_code, body and
\* headers of the Response that call returned (the one in the entry the call
\* logged), an injected fault's 500 included.
C31_AnswerIsTheResponse ==
    (server.answered.method = "POST") =>
        IF server.answered.tool_name \notin DOMAIN emu.mocks
        THEN server.answer.status_code = 404
        ELSE /\ emu.recorded_calls # <<>>
             /\ LET entry == emu.recorded_calls[Len(emu.recorded_calls)]
                IN /\ entry.tool_name = server.answered.tool_name
                   /\ server.answer.status_code = entry.response.status_code
                   /\ server.answer.content = entry.response.body
                   /\ server.answer.headers = entry.response.headers

\* An injected fault was answered with status 500 and its body, after a
\* Response with headers had been answered with them.
C31_Witness ==
    /\ server.answered.method = "POST"
    /\ server.answered.tool_name = NameA
    /\ server.answer.status_code = 500
    /\ server.answer.content = [error |-> "injected_error", tool |-> NameA]
    /\ Len(emu.recorded_calls) = 2
    /\ emu.recorded_calls[1].response.headers = [etag |-> "x"]

-----------------------------------------------------------------------------
(* cli.py: the command "call", one process per invocation *)

JSONDecodeError == [exception |-> "JSONDecodeError"]

\* The texts handed to --input and --response-body.
JsonTexts == {"{}", "{\"env\": \"production\"}", "not-valid-json", ""}

\* json.loads on the texts of JsonTexts.
json_loads(text) ==
    CASE text = "{}" -> EmptyDict
      [] text = "{\"env\": \"production\"}" -> [env |-> "production"]
      [] OTHER -> JSONDecodeError

\* The file config.yaml holds this config; missing.yaml does not exist.
ConfigFile ==
    EmulatorConfig(
        <<ToolMock(NameA, "static", <<Step3>>, 0, NoConditions),
          ToolMock(NameB, "conditional", <<Prod, Other>>, 0,
                   Conditions([env |-> "production"]))>>,
        0, TRUE)

ConfigPaths == {None, "config.yaml", "missing.yaml"}

load_config(config_path) ==
    IF config_path = "config.yaml" THEN ConfigFile
    ELSE [exception |-> "FileNotFoundError"]

\* Nothing was printed on standard output.
NoRecord == [printed |-> FALSE]

\* What a finished process leaves: its exit status, the record it printed on
\* standard output, the exception that ended it and the number of calls it
\* made to the emulator.
Exit(exit_code, raised, stdout, calls) ==
    [exit_code |-> exit_code, raised |-> raised, stdout |-> stdout,
     calls |-> calls]

\* Lines 142-156: the ad-hoc config; an exception of a constructor is not
\* caught by call_command.
adhoc_config(tool_name, status_code, body) ==
    LET response == MockResponse(status_code, body, 0, EmptyDict)
        mock == ToolMock(tool_name, "static", <<response>>, 0, NoConditions)
    IN IF response = ValidationError \/ mock = ValidationError
       THEN [exception |-> "ValidationError"]
       ELSE EmulatorConfig(<<mock>>, 0, TRUE)

\* Lines 158-170: the emulator is built, called once, and the record printed.
\* No mock on this path has an error_rate above 0 or the random policy, so the
\* draw and the pick handed to call are never read.
run_call(config, tool_name, input_data) ==
    LET r == call(ToolEmulator(config), tool_name, input_data, 0, 0)
    IN IF r.raised = "ToolNotFoundError"
       THEN Exit(1, r.raised, NoRecord, 1)
       ELSE Exit(0, None,
                 [status_code |-> r.response.status_code,
                  body |-> r.response.body,
                  headers |-> r.response.headers,
                  latency_ms |-> r.response.latency_ms], 1)

call_command(tool_name, input_json, config_path, status_code, response_body) ==
    LET input_data == json_loads(input_json)
    IN IF exception_of(input_data) # None
       THEN Exit(1, exception_of(input_data), NoRecord, 0)
       ELSE IF config_path # None
       THEN LET config == load_config(config_path)
            IN IF exception_of(config) # None
               THEN Exit(1, exception_of(config), NoRecord, 0)
               ELSE run_call(config, tool_name, input_data)
       ELSE LET body == IF response_body # None /\ response_body # ""
                        THEN json_loads(response_body) ELSE EmptyDict
            IN IF exception_of(body) # None
               THEN Exit(1, exception_of(body), NoRecord, 0)
               ELSE LET config == adhoc_config(tool_name, status_code, body)
                    IN IF exception_of(config) # None
                       THEN Exit(1, exception_of(config), NoRecord, 0)
                       ELSE run_call(config, tool_name, input_data)

CliStatusCodes == {99, 200, 201}

InitCli == InitWith({EmulatorConfig(<<>>, 0, TRUE)})

\* aumai-toolemu call --tool .. --input .. [--config ..] [--status-code ..]
\* [--response-body ..]
CallCommand ==
    \E tool_name \in CallNames, input_json \in JsonTexts,
       config_path \in ConfigPaths, status_code \in CliStatusCodes,
       response_body \in JsonTexts \cup {None} :
        /\ last' = (Outcome("call_command", tool_name, EmptyDict, None,
                            NoResponse, 0)
                    @@ [input_json |-> input_json, config_path |-> config_path,
                        status_code |-> status_code,
                        response_body |-> response_body,
                        exit |-> call_command(tool_name, input_json,
                                              config_path, status_code,
                                              response_body)])
        /\ UNCHANGED <<emu, ModelsFrame>>

NextCli == CallCommand

SpecCli == InitCli /\ [][NextCli]_vars

\* C32: the command "call" exits non-zero and prints no record when the tool
\* is unknown in the loaded config, when --input is not valid JSON or when
\* --response-body is not valid JSON; otherwise it calls the emulator once,
\* exits 0 and prints the returned Response.  (Invocations that fail for
\* another reason, a missing config file or an argument the constructors
\* reject, are left out.)
C32_CallCommandExit ==
    (last.op = "call_command" /\ last.exit.raised \notin
         {"FileNotFoundError", "ValidationError"}) =>
        LET unknown == /\ last.config_path = "config.yaml"
                       /\ last.tool_name \notin DOMAIN ToolEmulator(ConfigFile).mocks
            bad_input == exception_of(json_loads(last.input_json)) # None
            bad_body == /\ last.response_body # None
                        /\ exception_of(json_loads(last.response_body)) # None
        IN IF unknown \/ bad_input \/ bad_body
           THEN last.exit.exit_code # 0 /\ last.exit.stdout = NoRecord
           ELSE /\ last.exit.exit_code = 0
                /\ last.exit.calls = 1
                /\ last.exit.stdout # NoRecord

\* The cursor of a tool, an absent cursor counting as 0.
Cursor(self, tool_name) == dict_get(self.sequence_positions, tool_name, 0)

\* The step is a call to a tool registered with the sequential policy.
SequentialCall ==
    /\ last'.op = "call"
    /\ last'.tool_name \in DOMAIN emu.mocks
    /\ emu.mocks[last'.tool_name].behavior = "sequential"

\* C33 (as stated): every call to a registered sequential tool leaves the
\* tool's cursor at its value before the call plus 1.
C33_EverySequentialCallAdvances ==
    [][SequentialCall =>
           Cursor(emu', last'.tool_name) = Cursor(emu, last'.tool_name) + 1]_vars

\* C33 (amended): a call to a registered sequential tool that is answered
\* from its pool, no fault being injected and the pool not being empty, leaves
\* the tool's cursor at its value before the call plus 1; a call answered by
\* an injected fault or by the empty-pool default leaves the cursor map as it
\* was.
C33_PoolAnswerAdvances ==
    [][SequentialCall =>
           LET mock == emu.mocks[last'.tool_name]
           IN IF last'.response = InjectedFault(mock.tool_name) \/ mock.responses = <<>>
              THEN emu'.sequence_positions = emu.sequence_positions
              ELSE /\ last'.response \in Elements(mock.responses)
                   /\ Cursor(emu', last'.tool_name)
                          = Cursor(emu, last'.tool_name) + 1]_vars

\* A sequential tool answered from its pool, then with an injected fault: the
\* cursor stands at 1 after two calls.
C33_Witness ==
    /\ last.op = "call"
    /\ last.tool_name = NameA
    /\ emu.mocks[NameA].behavior = "sequential"
    /\ Len(history) = 2
    /\ history[1].response \in Elements(emu.mocks[NameA].responses)
    /\ history[2].response = InjectedFault(NameA)
    /\ Cursor(emu, NameA) = 1

\* C34: within one call the response is chosen and the cursor advanced first,
\* then the wait takes place, and the entry is appended only after the wait.
\* With no reset run, the log holds the entries of the calls that have
\* returned and no other, so a call in its wait has no entry yet; the step
\* that takes a sequential call into its wait leaves the cursor at the value
\* the call read plus 1 and the log as it was; and the wait itself changes
\* neither the cursors nor the log.
C34_RecordAfterWait ==
    /\ [](~conc.reset_ran => emu.recorded_calls = conc.returned)
    /\ [][\A t \in Threads :
              /\ (threads[t].pc = "advance" /\ threads'[t].pc = "sleep") =>
                     /\ Cursor(emu', threads[t].tool_name) = threads[t].pos + 1
                     /\ emu'.recorded_calls = emu.recorded_calls
              /\ (threads[t].pc = "sleep" /\ threads'[t] # threads[t]) =>
                     /\ threads'[t].pc = "record"
                     /\ emu' = emu]_vars

\* A second call to the sequential tool is in its wait: the log holds the
\* first call's entry alone, the cursor stands at 2.
C34_Witness ==
    /\ ~conc.reset_ran
    /\ \E t \in Threads :
           /\ threads[t].pc = "sleep"
           /\ threads[t].tool_name = NameA
           /\ threads[t].response = Step2
           /\ \A u \in Threads \ {t} : threads[u].pc = "idle"
    /\ Len(emu.recorded_calls) = 1
    /\ emu.recorded_calls[1].response = Step1
    /\ Cursor(emu, NameA) = 2

\* C35: a call to a tool registered with the static, random, conditional or
\* error policy leaves the whole cursor map as it was: no entry is created and
\* none advanced.
C35_OtherPoliciesKeepCursors ==
    [][(/\ last'.op = "call"
        /\ last'.tool_name \in DOMAIN emu.mocks
        /\ emu.mocks[last'.tool_name].behavior
               \in {"static", "random", "conditional", "error"}) =>
           emu'.sequence_positions = emu.sequence_positions]_vars

\* A call to the random tool was made between two calls to the sequential
\* tool, whose round robin went on: the cursor map holds the sequential
\* tool's cursor alone.
C35_Witness ==
    /\ Len(history) = 3
    /\ history[1].tool_name = NameA /\ history[1].response = Step2
    /\ history[2].tool_name = NameB /\ history[2].response \in {Step1, Step3}
    /\ history[3].tool_name = NameA /\ history[3].response = Step2
    /\ emu.mocks[NameB].behavior = "random"
    /\ emu.mocks[NameA].behavior = "sequential"
    /\ DOMAIN emu.sequence_positions = {NameA}
    /\ Cursor(emu, NameA) = 2

-----------------------------------------------------------------------------
(* Two sequential tools in one emulator *)

\* Tool a cycles through two responses, tool b through three or through one.
TwoSequentialConfigs ==
    { EmulatorConfig(
          <<ToolMock(NameA, "sequential", <<Step1, Step2>>, 0, NoConditions),
            ToolMock(NameB, "sequential", pool, 0, NoConditions)>>,
          0, r) : pool \in {<<Ok, Step3, Prod>>, <<Other>>}, r \in BOOLEAN }

InitTwoSequential == InitWith(TwoSequentialConfigs)

SpecTwoSequential == InitTwoSequential /\ [][NextAll]_vars

\* C36: a call to a sequential tool changes the cursor of that tool alone,
\* and in every interleaving of the calls to two sequential tools the i-th
\* call of each tool (i counted from 0 since the last reset) returns that
\* tool's responses[i mod k], its cursor counting its own calls.
C36_CursorsIndependent ==
    /\ [](\A name \in DOMAIN emu.mocks :
              LET mock == emu.mocks[name]
                  own == Entries(history, name)
              IN /\ Cursor(emu, name) = Len(own)
                 /\ \A i \in 1..Len(own) :
                        own[i].response
                            = mock.responses[((i - 1) % Len(mock.responses)) + 1])
    /\ [][last'.op = "call" =>
              \A name \in DOMAIN emu.mocks \ {last'.tool_name} :
                  /\ Cursor(emu', name) = Cursor(emu, name)
                  /\ (name \in DOMAIN emu'.sequence_positions)
                         = (name \in DOMAIN emu.sequence_positions)]_vars

\* Tool b was called between two calls of tool a: a has gone through its two
\* responses, b has returned its first, the cursors read 2 and 1.
C36_Witness ==
    /\ Len(history) = 3
    /\ history[1].tool_name = NameA /\ history[1].response = Step1
    /\ history[2].tool_name = NameB /\ history[2].response = Ok
    /\ history[3].tool_name = NameA /\ history[3].response = Step2
    /\ emu.mocks[NameB].behavior = "sequential"
    /\ Cursor(emu, NameA) = 2
    /\ Cursor(emu, NameB) = 1

-----------------------------------------------------------------------------
(* Every operation of the emulator that can meet the log *)

InitLog ==
    InitWith({EmulatorConfig(
                  <<ToolMock(NameA, "sequential", <<Step1, Step2>>, 0,
                             NoConditions)>>,
                  0, r) : r \in BOOLEAN})

NextLog == Call \/ Reset \/ AddMock \/ GetRecordedCalls

SpecLog == InitLog /\ [][NextLog]_vars

\* C37: no operation other than reset removes, replaces or reorders an entry
\* of the log: the log before the operation is a prefix of the log after it.
\* add_mock and get_recorded_calls leave the log as it was; a call that
\* raises, or any call with recording off, leaves it as it was; a call that
\* returns with recording on appends its own entry at the end.
C37_LogAppendOnly ==
    [][last'.op # "reset" =>
           LET log == emu.recorded_calls
               after == emu'.recorded_calls
           IN /\ Len(log) <= Len(after)
              /\ SubSeq(after, 1, Len(log)) = log
              /\ IF /\ last'.op = "call"
                    /\ last'.raised = None
                    /\ emu.config.record_calls
                 THEN after = Append(log, RecordedCall(last'.tool_name,
                                                       last'.input_data,
                                                       last'.response))
                 ELSE after = log]_vars

\* A mock was added and the log read between two recorded calls: the list
\* read holds the first entry, the log both.
C37_Witness ==
    /\ last.op = "call"
    /\ Len(emu.recorded_calls) = 2
    /\ adds = 1
    /\ held.kind = "own"
    /\ held.items = SubSeq(emu.recorded_calls, 1, 1)

\* C38: reset leaves the registry as it was: every tool registered before
\* it, from the config or through add_mock, is registered with the same spec
\* after it, so no name that call found before reset is unknown after it.
C38_ResetKeepsRegistry ==
    [][last'.op = "reset" =>
           /\ emu'.mocks = emu.mocks
           /\ emu'.config = emu.config
           /\ \A name \in CallNames :
                  (call(emu, name, EmptyDict, 0, 0).raised # "ToolNotFoundError") =>
                      (call(emu', name, EmptyDict, 0, 0).raised
                           # "ToolNotFoundError")]_vars

\* reset ran after a mock had been added and called: the log and the cursors
\* are empty, the added tool and the config's tools are registered.
C38_Witness ==
    /\ last.op = "reset"
    /\ last.cleared >= 1
    /\ adds = 1
    /\ emu.recorded_calls = <<>>
    /\ emu.sequence_positions = EmptyDict
    /\ {NameA, NameB, Ghost} \subseteq DOMAIN emu.mocks
    /\ emu.mocks[Ghost] = AddedSpec(Ghost)

\* C39: a mock built from a spec that ToolMock accepted is found under the
\* name the spec was built with: once add_mock has registered it, a call with
\* that name does not raise ToolNotFound, also when the name carries blanks in
\* front or behind.
C39_FoundUnderGivenName ==
    (/\ last.op = "call"
     /\ \E t \in AddSpecs :
            /\ t.tool_name = last.tool_name
            /\ Trimmed(t.tool_name) \in touched) =>
        last.raised # "ToolNotFoundError"

-----------------------------------------------------------------------------
(* Two emulators built from one config and given the same operations; each
   makes its own draws from the random module *)

\* The configs with error_rate 0 throughout and no random mock.
DeterministicConfigs ==
    { c \in Configs \cup
            { EmulatorConfig(
                  <<ToolMock(NameA, "conditional", <<Prod, Other>>, 0,
                             Conditions([env |-> "production"])),
                    ToolMock(NameB, "error", <<Ok>>, 0, NoConditions)>>,
                  5, TRUE) } :
          \A i \in 1..Len(c.mocks) :
              c.mocks[i].error_rate = 0 /\ c.mocks[i].behavior # "random" }

InitTwin ==
    /\ \E config \in DeterministicConfigs :
           /\ emu = ToolEmulator(config)
           /\ twin = [emu |-> ToolEmulator(config), last |-> NoOutcome("init")]
    /\ last = NoOutcome("init")
    /\ history = <<>>
    /\ adds = 0
    /\ touched = {}
    /\ held = NoList
    /\ threads = NoThreads
    /\ conc = NoConc
    /\ server = NoServer

\* The least and the greatest of the draws.
TwinDraws == {0, 99}

\* The same call on both emulators; random.random() and random.choice give
\* each its own values.
TwinCall ==
    \E tool_name \in CallNames, draw \in TwinDraws, twin_draw \in TwinDraws :
    \E input_data \in Payloads(emu, tool_name), pick \in Picks(emu, tool_name),
       twin_pick \in Picks(twin.emu, tool_name) :
        LET r == call(twin.emu, tool_name, input_data, twin_draw, twin_pick)
        IN /\ CallStep(tool_name, input_data, draw, pick)
           /\ twin' = [emu |-> r.self,
                       last |-> Outcome("call", tool_name, input_data, r.raised,
                                        r.response, r.slept)]
           /\ UNCHANGED <<held, threads, conc, server>>

NextTwin == TwinCall \/ PairReset \/ PairAddMock

SpecTwin == InitTwin /\ [][NextTwin]_vars

\* C40: two emulators built from one config with error_rate 0 throughout and
\* no random mock, and given the same calls, add_mocks and resets, answer
\* every step alike (the same response, ToolNotFound at the same steps, the
\* same wait) and hold equal cursor maps, equal logs and equal registries
\* after every step, whatever the random module gives each of them.
C40_Deterministic ==
    /\ twin.last.response = last.response
    /\ twin.last.raised = last.raised
    /\ twin.last.slept = last.slept
    /\ twin.emu.sequence_positions = emu.sequence_positions
    /\ twin.emu.recorded_calls = emu.recorded_calls
    /\ twin.emu.mocks = emu.mocks

\* After an add_mock and three calls both emulators hold the same three
\* entries and the same cursor, and have just returned the same response.
C40_Witness ==
    /\ last.op = "call"
    /\ last.raised = None
    /\ twin.last.response = last.response
    /\ adds = 1
    /\ Len(emu.recorded_calls) = 3
    /\ twin.emu.recorded_calls = emu.recorded_calls
    /\ emu.sequence_positions # EmptyDict
    /\ twin.emu.sequence_positions = emu.sequence_positions

====
